---- MODULE Spec2Model ----
(***************************************************************************)
(* Model of the dermacare_api data layer: the save() overrides of          *)
(* Appointment, Patient and ClinicSettings, the derived properties of      *)
(* Appointment, and the relational store they read and write.              *)
(*                                                                         *)
(* Strings are sequences of one-character strings, ordered by Alphabet.    *)
(* A time of day is a number of minutes since midnight, a date is a record *)
(* [year, month, day], and an instant is a number of minutes since the     *)
(* start of day 1 of the proleptic Gregorian calendar (date.toordinal).    *)
(***************************************************************************)
EXTENDS Integers, Sequences, FiniteSets, TLC

\* ------------------------------------------------------------------------
\* Bounds of the model
\* ------------------------------------------------------------------------

\* Number of callers that can be inside a save() at the same time.
NumProcs == 2

\* Primary keys handed out per table before creation stops.
MaxPk == 3

\* The same under concurrent callers.
MaxRacePk == 2

\* The same where the times of an appointment are varied.
MaxTimedPk == 1

\* ------------------------------------------------------------------------
\* Characters and strings
\* ------------------------------------------------------------------------

\* The characters that occur in identifiers, in code-point order.
Alphabet == <<"0", "1", "2", "3", "4", "5", "6", "7", "8", "9", "A", "P", "T", "X">>

DigitChars == {Alphabet[i] : i \in 1..10}

Ord(c) == CHOOSE i \in 1..Len(Alphabet) : Alphabet[i] = c

DigitVal(c) == Ord(c) - 1

DigitChr(d) == Alphabet[d + 1]

\* a < b in the order of the database's ORDER BY on a character column.
RECURSIVE StrLess(_, _)
StrLess(a, b) ==
    IF b = <<>> THEN FALSE
    ELSE IF a = <<>> THEN TRUE
    ELSE IF Head(a) # Head(b) THEN Ord(Head(a)) < Ord(Head(b))
    ELSE StrLess(Tail(a), Tail(b))

\* str.startswith / the __startswith lookup.
StartsWith(s, prefix) ==
    /\ Len(s) >= Len(prefix)
    /\ SubSeq(s, 1, Len(prefix)) = prefix

\* s[-k:]
LastChars(s, k) ==
    IF Len(s) <= k THEN s ELSE SubSeq(s, Len(s) - k + 1, Len(s))

\* str(n) for n >= 0.
RECURSIVE Decimal(_)
Decimal(n) ==
    IF n < 10 THEN <<DigitChr(n)>>
    ELSE Append(Decimal(n \div 10), DigitChr(n % 10))

\* f'{n:0{width}d}' for n >= 0: zeros are added on the left up to width,
\* and a longer number is left as it is.
RECURSIVE ZeroPad(_, _)
ZeroPad(s, width) ==
    IF Len(s) >= width THEN s ELSE ZeroPad(<<"0">> \o s, width)

\* int(s) fails with ValueError on a string that is not a decimal number.
IsDecimal(s) == s # <<>> /\ \A i \in 1..Len(s) : s[i] \in DigitChars

RECURSIVE ParseInt(_)
ParseInt(s) ==
    IF s = <<>> THEN 0
    ELSE 10 * ParseInt(SubSeq(s, 1, Len(s) - 1)) + DigitVal(s[Len(s)])

\* ------------------------------------------------------------------------
\* Calendar (datetime.date, datetime.datetime, timedelta)
\* ------------------------------------------------------------------------

MinutesPerDay == 24 * 60

IsLeap(y) == y % 4 = 0 /\ (y % 100 # 0 \/ y % 400 = 0)

DaysInMonth(y, m) ==
    IF m = 2 THEN (IF IsLeap(y) THEN 29 ELSE 28)
    ELSE IF m \in {4, 6, 9, 11} THEN 30 ELSE 31

DaysBeforeYear(y) ==
    (y - 1) * 365 + (y - 1) \div 4 - (y - 1) \div 100 + (y - 1) \div 400

RECURSIVE DaysBeforeMonth(_, _)
DaysBeforeMonth(y, m) ==
    IF m = 1 THEN 0 ELSE DaysBeforeMonth(y, m - 1) + DaysInMonth(y, m - 1)

\* date.toordinal()
ToOrdinal(d) == DaysBeforeYear(d.year) + DaysBeforeMonth(d.year, d.month) + d.day

\* datetime.combine(date, time) as an instant.
Combine(d, t) == ToOrdinal(d) * MinutesPerDay + t

\* datetime.time(): the time of day of an instant, its date dropped.
TimeOf(instant) == instant % MinutesPerDay

Date(y, m, d) == [year |-> y, month |-> m, day |-> d]

\* An aware datetime: a date and a time of day, both in the one time zone of
\* the deployment.
At(d, t) == [date |-> d, minute |-> t]

Instant(dt) == Combine(dt.date, dt.minute)

\* ------------------------------------------------------------------------
\* State
\* ------------------------------------------------------------------------

VARIABLES
    now,            \* the clock read by timezone.now() and datetime.now()
    appointments,   \* the rows of appointments_appointment
    apptPk,         \* the last primary key the table handed out
    pc,             \* per caller: where it is inside a save()
    inst,           \* per caller: the model instance being saved
    result,         \* per caller: how its last save() ended
    query,          \* per caller: what the ID query of its save() read
    given,          \* per caller: the instance as its save() was called on
    issued,         \* the identifiers save() generated and stored, in order
    issuedIn,       \* for each of them, the <<year, month>> its save() read the clock in
    patients,       \* the rows of patients_patient
    patientPk,      \* the last primary key the table handed out
    plast,          \* the last Patient.save(): what it read, made and returned
    pplain,         \* every stored patient was created with a generated ID
    settings,       \* the rows of clinic_config_settings
    settingsPk,     \* the last primary key the table handed out
    spc,            \* per caller: where it is inside ClinicSettings.save()
    sinst,          \* per caller: the ClinicSettings instance being saved
    sresult         \* per caller: how its last ClinicSettings.save() ended

apptVars == <<appointments, apptPk, pc, inst, result, query, given, issued, issuedIn>>

patientVars == <<patients, patientPk, plast, pplain>>

settingsVars == <<settings, settingsPk, spc, sinst, sresult>>

vars == <<now, apptVars, patientVars, settingsVars>>

Procs == 1..NumProcs

\* A field that holds None (end_time is null=True; pk is None before the
\* first insert).
None == -1

\* ------------------------------------------------------------------------
\* Appointment
\* ------------------------------------------------------------------------

\* The number of trailing characters save() reads the sequence number from.
SuffixLen == 4

\* The width the sequence number is zero-padded to.
PadWidth == 4

\* The hours before the scheduled start at which cancellation closes.
CutoffHours == 24

\* ApptPrefix with the numbering kept per year, as Patient.save keeps it.
ApptPrefixYearOnly(dt) ==
    <<"A", "P", "T">> \o Decimal(dt.date.year)

\* f'APT{now.year}{now.month:02d}'
ApptPrefix(dt) ==
    <<"A", "P", "T">> \o Decimal(dt.date.year) \o ZeroPad(Decimal(dt.date.month), 2)

ApptIds(rows) == {r.appointment_id : r \in rows}

\* objects.filter(<id>__startswith=prefix), as the identifiers it finds.
WithPrefix(ids, prefix) == {id \in ids : StartsWith(id, prefix)}

\* LastId with the query ordered by the identifier ascending.
FirstId(ids) == CHOOSE id \in ids : \A o \in ids : ~StrLess(o, id)

\* .order_by('-<id>').first() of a non-empty query set.
LastId(ids) == CHOOSE id \in ids : \A o \in ids : ~StrLess(id, o)

\* Whether int(last_appointment.appointment_id[-4:]) raises ValueError.
ApptIdRaises(rows, dt) ==
    LET found == WithPrefix(ApptIds(rows), ApptPrefix(dt))
    IN  found # {} /\ ~IsDecimal(LastChars(LastId(found), SuffixLen))

\* NewApptNumber taken from the number of appointments of the month.
ApptNumberByCount(rows, dt) ==
    Cardinality(WithPrefix(ApptIds(rows), ApptPrefix(dt))) + 1

\* new_number of Appointment.save.
NewApptNumber(rows, dt) ==
    LET found == WithPrefix(ApptIds(rows), ApptPrefix(dt))
    IN  IF found # {}
        THEN ParseInt(LastChars(LastId(found), SuffixLen)) + 1
        ELSE 1

\* f'{prefix}{new_number:04d}'
NewApptId(rows, dt) ==
    ApptPrefix(dt) \o ZeroPad(Decimal(NewApptNumber(rows, dt)), PadWidth)

\* EndTime with an end_time of midnight taken for one that is not set.
EndTimeMidnightUnset(a) ==
    IF a.end_time \in {None, 0} /\ a.appointment_time # None /\ a.duration # 0
    THEN TimeOf(Combine(a.appointment_date, a.appointment_time) + a.duration)
    ELSE a.end_time

\* EndTime with the duration added to the time of day alone.
EndTimeNoWrap(a) ==
    IF a.end_time = None /\ a.appointment_time # None /\ a.duration # 0
    THEN a.appointment_time + a.duration
    ELSE a.end_time

\* The end_time save() leaves on the instance.
EndTime(a) ==
    IF a.end_time = None /\ a.appointment_time # None /\ a.duration # 0
    THEN TimeOf(Combine(a.appointment_date, a.appointment_time) + a.duration)
    ELSE a.end_time

\* IsPastDue with the times of day compared and the dates left out.
IsPastDueByTimeOfDay(a, dt) ==
    dt.minute > a.appointment_time

\* IsPastDue with the scheduled instant itself counted as past.
IsPastDueAtStart(a, dt) ==
    Instant(dt) >= Combine(a.appointment_date, a.appointment_time)

\* Appointment.is_past_due
IsPastDue(a, dt) ==
    Instant(dt) > Combine(a.appointment_date, a.appointment_time)

\* CanBeCancelled with the window read from the stored ClinicSettings, and
\* closed for an appointment that is already cancelled.
CanBeCancelledPerSettings(a, dt) ==
    LET hours == IF settings = {} THEN CutoffHours
                 ELSE (CHOOSE row \in settings : TRUE).cancellation_deadline_hours
    IN  /\ a.status # "cancelled"
        /\ Instant(dt) < Combine(a.appointment_date, a.appointment_time) - hours * 60

\* CanBeCancelled with the 24 hours added to the scheduled start.
CanBeCancelledLate(a, dt) ==
    Instant(dt) < Combine(a.appointment_date, a.appointment_time) + CutoffHours * 60

\* CanBeCancelled with the cutoff instant itself still allowed.
CanBeCancelledAtCutoff(a, dt) ==
    Instant(dt) <= Combine(a.appointment_date, a.appointment_time) - CutoffHours * 60

\* Appointment.can_be_cancelled
CanBeCancelled(a, dt) ==
    LET cutoff_time ==
            Combine(a.appointment_date, a.appointment_time) - CutoffHours * 60
    IN  Instant(dt) < cutoff_time

\* Appointment.STATUS_CHOICES
STATUS_CHOICES ==
    {"scheduled", "confirmed", "checked_in", "in_progress", "completed",
     "cancelled", "no_show", "rescheduled"}

\* An Appointment instance as the caller builds it: no primary key yet,
\* status at its default.
NewAppointment(id, doctor, date, time, duration, end) ==
    [pk |-> None, appointment_id |-> id, doctor |-> doctor,
     appointment_date |-> date, appointment_time |-> time,
     duration |-> duration, end_time |-> end, status |-> "scheduled"]

\* What query holds for a save() that made no query.
NoQuery == [ran |-> FALSE, at |-> At(Date(1, 1, 1), 0), ids |-> {}]

\* What inst and sinst hold while their caller is in no save().
BlankAppointment == NewAppointment(<<>>, "", Date(1, 1, 1), 0, 0, None)

BlankSettings == [pk |-> None, cancellation_deadline_hours |-> 0]

\* ApptSaveBody with the identifier generated on every save(), whether the
\* instance has one or not.
ApptSaveBodyRenumbering(p, a) ==
    /\ pc[p] = "idle"
    /\ IF ApptIdRaises(appointments, now)
       THEN /\ result' = [result EXCEPT ![p] = "ValueError"]
            /\ UNCHANGED <<pc, inst, query, given>>
       ELSE LET named == [a EXCEPT !.appointment_id = NewApptId(appointments, now)]
            IN  /\ inst' = [inst EXCEPT ![p] = [named EXCEPT !.end_time = EndTime(named)]]
                /\ query' = [query EXCEPT ![p] = NoQuery]
                /\ given' = [given EXCEPT ![p] = a]
                /\ pc' = [pc EXCEPT ![p] = "write"]
                /\ result' = [result EXCEPT ![p] = "none"]
    /\ UNCHANGED <<now, appointments, apptPk, issued, issuedIn, patientVars, settingsVars>>

\* Appointment.save up to the call of super().save(): the identifier is
\* generated when the instance has none (one query of the table), then the
\* end time is derived when the instance has none.
ApptSaveBody(p, a) ==
    /\ pc[p] = "idle"
    /\ IF a.appointment_id = <<>> /\ ApptIdRaises(appointments, now)
       THEN /\ result' = [result EXCEPT ![p] = "ValueError"]
            /\ UNCHANGED <<pc, inst, query, given>>
       ELSE LET named ==
                    IF a.appointment_id = <<>>
                    THEN [a EXCEPT !.appointment_id = NewApptId(appointments, now)]
                    ELSE a
                asked ==
                    IF a.appointment_id = <<>>
                    THEN [ran |-> TRUE, at |-> now, ids |-> ApptIds(appointments)]
                    ELSE NoQuery
            IN  /\ inst' = [inst EXCEPT ![p] = [named EXCEPT !.end_time = EndTime(named)]]
                /\ query' = [query EXCEPT ![p] = asked]
                /\ given' = [given EXCEPT ![p] = a]
                /\ pc' = [pc EXCEPT ![p] = "write"]
                /\ result' = [result EXCEPT ![p] = "none"]
    /\ UNCHANGED <<now, appointments, apptPk, issued, issuedIn, patientVars, settingsVars>>

\* The new instances whose save() is under way.
Creating == {q \in Procs : pc[q] = "write" /\ inst[q].pk = None}

\* A caller builds a new appointment and calls save().
ApptCreate(p, limit, ids, doctors, dates, times, durations, ends) ==
    /\ apptPk + Cardinality(Creating) < limit
    /\ \E id \in ids, doctor \in doctors, date \in dates, time \in times,
          duration \in durations, end \in ends :
            ApptSaveBody(p, NewAppointment(id, doctor, date, time, duration, end))

\* A caller loads a stored appointment, assigns some of its fields and calls
\* save(). Each set holds the values a field may be given; the field keeps
\* its value otherwise.
ApptUpdate(p, ids, times, durations, ends, statuses) ==
    \E r \in appointments :
        \E id \in ids \cup {r.appointment_id}, time \in times \cup {r.appointment_time},
           duration \in durations \cup {r.duration}, end \in ends \cup {r.end_time},
           status \in statuses \cup {r.status} :
            ApptSaveBody(p, [r EXCEPT !.appointment_id = id, !.appointment_time = time,
                                     !.duration = duration, !.end_time = end,
                                     !.status = status])

\* ApptIdTaken with appointment_id not declared unique.
ApptIdFree(rows, a) == FALSE

\* unique=True on appointment_id and unique_together on the slot, as the
\* database enforces them on a write of instance a.
ApptIdTaken(rows, a) ==
    \E r \in rows : r.pk # a.pk /\ r.appointment_id = a.appointment_id

\* ApptSlotTaken with cancelled appointments taken to have freed their slot.
SlotTakenByActive(rows, a) ==
    \E r \in rows :
        /\ r.pk # a.pk
        /\ r.status # "cancelled"
        /\ r.doctor = a.doctor
        /\ r.appointment_date = a.appointment_date
        /\ r.appointment_time = a.appointment_time

\* unique_together = ['doctor', 'appointment_date', 'appointment_time']
ApptSlotTaken(rows, a) ==
    \E r \in rows :
        /\ r.pk # a.pk
        /\ r.doctor = a.doctor
        /\ r.appointment_date = a.appointment_date
        /\ r.appointment_time = a.appointment_time

\* ApptSuperSave with the insert tried again under a fresh identifier when
\* the generated one is taken.
ApptSuperSaveRetry(p) ==
    /\ pc[p] = "write"
    /\ pc' = [pc EXCEPT ![p] = "idle"]
    /\ inst' = [inst EXCEPT ![p] = BlankAppointment]
    /\ query' = [query EXCEPT ![p] = NoQuery]
    /\ given' = [given EXCEPT ![p] = BlankAppointment]
    /\ LET a == IF query[p].ran /\ ApptIdTaken(appointments, inst[p])
                THEN [inst[p] EXCEPT !.appointment_id = NewApptId(appointments, now)]
                ELSE inst[p]
       IN
       IF ApptIdTaken(appointments, a) \/ ApptSlotTaken(appointments, a)
       THEN /\ result' = [result EXCEPT ![p] = "IntegrityError"]
            /\ UNCHANGED <<appointments, apptPk, issued, issuedIn>>
       ELSE LET row == IF a.pk = None THEN [a EXCEPT !.pk = apptPk + 1] ELSE a
            IN  /\ appointments' = {r \in appointments : r.pk # row.pk} \cup {row}
                /\ apptPk' = IF a.pk = None THEN apptPk + 1 ELSE apptPk
                /\ issued' = IF query[p].ran THEN Append(issued, row.appointment_id)
                             ELSE issued
                /\ issuedIn' = IF query[p].ran
                               THEN Append(issuedIn, <<query[p].at.date.year,
                                                       query[p].at.date.month>>)
                               ELSE issuedIn
                /\ result' = [result EXCEPT ![p] = "ok"]
    /\ UNCHANGED <<now, patientVars, settingsVars>>

\* super().save(): an UPDATE of the row with the instance's primary key, an
\* INSERT when there is none; IntegrityError when a constraint is broken.
ApptSuperSave(p) ==
    /\ pc[p] = "write"
    /\ pc' = [pc EXCEPT ![p] = "idle"]
    /\ inst' = [inst EXCEPT ![p] = BlankAppointment]
    /\ query' = [query EXCEPT ![p] = NoQuery]
    /\ given' = [given EXCEPT ![p] = BlankAppointment]
    /\ LET a == inst[p] IN
       IF ApptIdTaken(appointments, a) \/ ApptSlotTaken(appointments, a)
       THEN /\ result' = [result EXCEPT ![p] = "IntegrityError"]
            /\ UNCHANGED <<appointments, apptPk, issued, issuedIn>>
       ELSE LET row == IF a.pk = None THEN [a EXCEPT !.pk = apptPk + 1] ELSE a
            IN  /\ appointments' = {r \in appointments : r.pk # row.pk} \cup {row}
                /\ apptPk' = IF a.pk = None THEN apptPk + 1 ELSE apptPk
                /\ issued' = IF query[p].ran THEN Append(issued, row.appointment_id)
                             ELSE issued
                /\ issuedIn' = IF query[p].ran
                               THEN Append(issuedIn, <<query[p].at.date.year,
                                                       query[p].at.date.month>>)
                               ELSE issuedIn
                /\ result' = [result EXCEPT ![p] = "ok"]
    /\ UNCHANGED <<now, patientVars, settingsVars>>

\* Model.delete() on a stored appointment.
ApptDelete ==
    /\ \E r \in appointments : appointments' = appointments \ {r}
    /\ UNCHANGED <<now, apptPk, pc, inst, result, query, given, issued, issuedIn>>
    /\ UNCHANGED <<patientVars, settingsVars>>

\* Time passes.
Tick(instants) ==
    /\ \E t \in instants : Instant(t) > Instant(now) /\ now' = t
    /\ UNCHANGED <<apptVars, patientVars, settingsVars>>

\* No save() is under way.
Quiet == \A q \in Procs : pc[q] = "idle"

\* ------------------------------------------------------------------------
\* Patient
\* ------------------------------------------------------------------------

\* f'PAT{year}'
PatientPrefix(dt) == <<"P", "A", "T">> \o Decimal(dt.date.year)

PatientIds(rows) == {r.patient_id : r \in rows}

\* Whether int(last_patient.patient_id[-4:]) raises ValueError.
PatientIdRaises(rows, dt) ==
    LET found == WithPrefix(PatientIds(rows), PatientPrefix(dt))
    IN  found # {} /\ ~IsDecimal(LastChars(LastId(found), SuffixLen))

\* NewPatientNumber taken from the number of patients of the year.
PatientNumberByCount(rows, dt) ==
    Cardinality(WithPrefix(PatientIds(rows), PatientPrefix(dt))) + 1

\* new_number of Patient.save.
NewPatientNumber(rows, dt) ==
    LET found == WithPrefix(PatientIds(rows), PatientPrefix(dt))
    IN  IF found # {}
        THEN ParseInt(LastChars(LastId(found), SuffixLen)) + 1
        ELSE 1

\* f'PAT{year}{new_number:04d}'
NewPatientId(rows, dt) ==
    PatientPrefix(dt) \o ZeroPad(Decimal(NewPatientNumber(rows, dt)), PadWidth)

\* unique=True on patient_id and the one-to-one link to the user.
PatientTaken(rows, a) ==
    \E r \in rows : r.pk # a.pk /\ (r.patient_id = a.patient_id \/ r.user = a.user)

\* Patient.save on a new patient of `user`, run to its end with no other
\* save() in between. id is what the caller put in patient_id.
PatientSave(id, user) ==
    LET a == [pk |-> None, user |-> user,
              patient_id |-> IF id = <<>> THEN NewPatientId(patients, now) ELSE id]
        call == [ran |-> id = <<>>, at |-> now, ids |-> PatientIds(patients),
                 id |-> a.patient_id, result |-> "ok"]
    IN  IF id = <<>> /\ PatientIdRaises(patients, now)
        THEN /\ plast' = [call EXCEPT !.id = <<>>, !.result = "ValueError"]
             /\ UNCHANGED <<patients, patientPk, pplain>>
        ELSE IF PatientTaken(patients, a)
        THEN /\ plast' = [call EXCEPT !.result = "IntegrityError"]
             /\ UNCHANGED <<patients, patientPk, pplain>>
        ELSE /\ patients' = patients \cup {[a EXCEPT !.pk = patientPk + 1]}
             /\ patientPk' = patientPk + 1
             /\ plast' = call
             /\ pplain' = (pplain /\ id = <<>>)

PatientCreate(ids, users) ==
    /\ patientPk < MaxPk
    /\ \E id \in ids, user \in users : PatientSave(id, user)
    /\ UNCHANGED <<now, apptVars, settingsVars>>

\* Model.delete() on a stored patient.
PatientDelete ==
    /\ \E r \in patients : patients' = patients \ {r}
    /\ pplain' = FALSE
    /\ UNCHANGED <<now, patientPk, plast, apptVars, settingsVars>>

\* ------------------------------------------------------------------------
\* ClinicSettings
\* ------------------------------------------------------------------------

\* SettingsSaveBody without the guard.
SettingsSaveUnguarded(p, a) ==
    /\ spc[p] = "idle"
    /\ sinst' = [sinst EXCEPT ![p] = a]
    /\ spc' = [spc EXCEPT ![p] = "write"]
    /\ sresult' = [sresult EXCEPT ![p] = "none"]
    /\ UNCHANGED <<now, settings, settingsPk, apptVars, patientVars>>

\* SettingsSaveBody with the guard evaluated after the row is written.
SettingsSaveThenGuard(p, a) ==
    /\ spc[p] = "idle"
    /\ IF a.pk = None /\ settings # {}
       THEN /\ sresult' = [sresult EXCEPT ![p] = "ValueError"]
            /\ settings' = settings \cup {[a EXCEPT !.pk = settingsPk + 1]}
            /\ settingsPk' = settingsPk + 1
            /\ UNCHANGED <<spc, sinst>>
       ELSE /\ sinst' = [sinst EXCEPT ![p] = a]
            /\ spc' = [spc EXCEPT ![p] = "write"]
            /\ sresult' = [sresult EXCEPT ![p] = "none"]
            /\ UNCHANGED <<settings, settingsPk>>
    /\ UNCHANGED <<now, apptVars, patientVars>>

\* SettingsSaveBody with the guard refusing every save() while a row exists,
\* the save() of the stored instance too.
SettingsSaveGuardAll(p, a) ==
    /\ spc[p] = "idle"
    /\ IF settings # {}
       THEN /\ sresult' = [sresult EXCEPT ![p] = "ValueError"]
            /\ UNCHANGED <<spc, sinst>>
       ELSE /\ sinst' = [sinst EXCEPT ![p] = a]
            /\ spc' = [spc EXCEPT ![p] = "write"]
            /\ sresult' = [sresult EXCEPT ![p] = "none"]
    /\ UNCHANGED <<now, settings, settingsPk, apptVars, patientVars>>

\* ClinicSettings.save up to the call of super().save(): the guard.
SettingsSaveBody(p, a) ==
    /\ spc[p] = "idle"
    /\ IF a.pk = None /\ settings # {}
       THEN /\ sresult' = [sresult EXCEPT ![p] = "ValueError"]
            /\ UNCHANGED <<spc, sinst>>
       ELSE /\ sinst' = [sinst EXCEPT ![p] = a]
            /\ spc' = [spc EXCEPT ![p] = "write"]
            /\ sresult' = [sresult EXCEPT ![p] = "none"]
    /\ UNCHANGED <<now, settings, settingsPk, apptVars, patientVars>>

SettingsCreating == {q \in Procs : spc[q] = "write" /\ sinst[q].pk = None}

\* A caller builds a new ClinicSettings and calls save().
SettingsCreate(p, limit, hours) ==
    /\ settingsPk + Cardinality(SettingsCreating) < limit
    /\ \E h \in hours :
          SettingsSaveBody(p, [pk |-> None, cancellation_deadline_hours |-> h])

\* A caller loads the stored settings, assigns a field and calls save().
SettingsUpdate(p, hours) ==
    \E r \in settings, h \in hours :
        SettingsSaveBody(p, [r EXCEPT !.cancellation_deadline_hours = h])

\* super().save(): an UPDATE of the row with the instance's primary key, an
\* INSERT when there is none.
SettingsSuperSave(p) ==
    /\ spc[p] = "write"
    /\ LET a == sinst[p]
           row == IF a.pk = None THEN [a EXCEPT !.pk = settingsPk + 1] ELSE a
       IN  /\ settings' = {r \in settings : r.pk # row.pk} \cup {row}
           /\ settingsPk' = IF a.pk = None THEN settingsPk + 1 ELSE settingsPk
           /\ sinst' = [sinst EXCEPT ![p] = BlankSettings]
    /\ spc' = [spc EXCEPT ![p] = "idle"]
    /\ sresult' = [sresult EXCEPT ![p] = "ok"]
    /\ UNCHANGED <<now, apptVars, patientVars>>

\* Model.delete() on the stored settings.
SettingsDelete ==
    /\ \E r \in settings : settings' = settings \ {r}
    /\ UNCHANGED <<now, settingsPk, spc, sinst, sresult, apptVars, patientVars>>

SettingsQuiet == \A q \in Procs : spc[q] = "idle"

\* ------------------------------------------------------------------------
\* Inputs
\* ------------------------------------------------------------------------

\* The clock starts in the last minute of November 2024.
Start == At(Date(2024, 11, 30), 23 * 60 + 59)

\* Later readings of the clock: the next month, and the next year.
MonthInstants == {At(Date(2024, 12, 1), 0), At(Date(2025, 1, 1), 0)}

\* Appointments are booked on 2 December 2024, at 00:00, 09:00 or 23:30.
BookDate == Date(2024, 12, 2)

Midnight == 0 * 60

Morning == 9 * 60

LateEvening == 23 * 60 + 30

Doctors == {"D1", "D2"}

\* Identifiers a caller may supply instead of leaving the field empty: one
\* of the generated form with a high sequence number, and one that does not
\* end in a number.
HighApptId == ApptPrefix(Start) \o <<"9", "9", "9", "9">>

OddApptId == ApptPrefix(Start) \o <<"X">>

FirstApptId == ApptPrefix(Start) \o <<"0", "0", "0", "1">>

NoCall == [ran |-> FALSE, at |-> Start, ids |-> {}, id |-> <<>>, result |-> "none"]

\* ------------------------------------------------------------------------
\* Specifications
\* ------------------------------------------------------------------------

Init ==
    /\ now = Start
    /\ appointments = {}
    /\ apptPk = 0
    /\ pc = [p \in Procs |-> "idle"]
    /\ inst = [p \in Procs |-> BlankAppointment]
    /\ result = [p \in Procs |-> "none"]
    /\ query = [p \in Procs |-> NoQuery]
    /\ given = [p \in Procs |-> BlankAppointment]
    /\ issued = <<>>
    /\ issuedIn = <<>>
    /\ patients = {}
    /\ patientPk = 0
    /\ plast = NoCall
    /\ pplain = TRUE
    /\ settings = {}
    /\ settingsPk = 0
    /\ spc = [p \in Procs |-> "idle"]
    /\ sinst = [p \in Procs |-> BlankSettings]
    /\ sresult = [p \in Procs |-> "none"]

\* The appointment table under concurrent callers: saves of new and of stored
\* appointments interleave with each other and with deletions.
Next ==
    \/ \E p \in Procs :
          ApptCreate(p, MaxRacePk, {<<>>}, {"D1"}, {BookDate}, {Morning, LateEvening},
                     {30}, {None})
    \/ \E p \in Procs : ApptUpdate(p, {FirstApptId}, {}, {}, {}, {})
    \/ \E p \in Procs : ApptSuperSave(p)
    \/ ApptDelete
    \/ Tick({At(Date(2024, 12, 1), 0)})

Spec == Init /\ [][Next]_vars

\* The caller of the specifications that run one save() at a time.
Caller == CHOOSE p \in Procs : TRUE

\* The appointment table with one save() at a time: identifiers are generated
\* or supplied by the caller, appointments are cancelled and deleted, and the
\* months pass.
SeqCreate ==
    /\ Quiet
    /\ ApptCreate(Caller, MaxPk, {<<>>, HighApptId, OddApptId}, {"D1"}, {BookDate},
                  {Midnight, Morning, LateEvening}, {30}, {None})

SeqUpdate == Quiet /\ ApptUpdate(Caller, {}, {}, {}, {}, {"cancelled"})

SeqDelete == Quiet /\ ApptDelete

SeqTick == Quiet /\ Tick(MonthInstants)

SeqNext ==
    \/ SeqCreate
    \/ SeqUpdate
    \/ ApptSuperSave(Caller)
    \/ SeqDelete
    \/ SeqTick

SpecSeq == Init /\ [][SeqNext]_vars

\* The same with no appointment ever deleted.
GrowNext ==
    \/ SeqCreate
    \/ SeqUpdate
    \/ ApptSuperSave(Caller)
    \/ SeqTick

SpecGrow == Init /\ [][GrowNext]_vars

\* One save() at a time, over the times of day, durations and end times an
\* appointment can be given, with the clock read around the cancellation
\* cutoff and the start of the appointment at 00:00 on 2 December.
CutoffInstants ==
    {At(Date(2024, 12, 1), 0), At(Date(2024, 12, 1), 1),
     At(BookDate, 0), At(BookDate, 1)}

TimesCreate ==
    /\ Quiet
    /\ ApptCreate(Caller, MaxTimedPk, {<<>>}, {"D1"}, {BookDate},
                  {Midnight, Morning, LateEvening}, {0, 30, 45, 2 * MinutesPerDay + 45},
                  {None, Morning})

TimesUpdate == Quiet /\ ApptUpdate(Caller, {}, {Morning}, {45}, {None}, {"cancelled"})

TimesTick == Quiet /\ Tick(CutoffInstants)

TimesNext ==
    \/ TimesCreate
    \/ TimesUpdate
    \/ ApptSuperSave(Caller)
    \/ SeqDelete
    \/ TimesTick

SpecTimes == Init /\ [][TimesNext]_vars

\* The appointment table under concurrent callers that book, reschedule and
\* cancel: appointments are created in two slots, moved to 09:00, cancelled
\* and deleted.
SlotsNext ==
    \/ \E p \in Procs :
          ApptCreate(p, MaxRacePk, {<<>>}, {"D1"}, {BookDate}, {Morning, LateEvening},
                     {30}, {None})
    \/ \E p \in Procs : ApptUpdate(p, {}, {Morning}, {}, {}, {"cancelled"})
    \/ \E p \in Procs : ApptSuperSave(p)
    \/ ApptDelete

SpecSlots == Init /\ [][SlotsNext]_vars

\* Appointments whose end_time is never supplied: they are created without
\* one, then moved to another time, given another duration, and cancelled.
ReschedCreate ==
    /\ Quiet
    /\ ApptCreate(Caller, MaxTimedPk, {<<>>}, {"D1"}, {BookDate},
                  {Morning, LateEvening}, {30, 45}, {None})

ReschedUpdate ==
    Quiet /\ ApptUpdate(Caller, {}, {Midnight, Morning}, {30, 45}, {}, {"cancelled"})

ReschedNext ==
    \/ ReschedCreate
    \/ ReschedUpdate
    \/ ApptSuperSave(Caller)
    \/ SeqDelete

SpecResched == Init /\ [][ReschedNext]_vars

\* An appointment and the clinic settings side by side: the appointment is
\* booked and its status changed, the settings are created and their
\* cancellation deadline changed, and the clock passes the cutoff.
CancelCreate ==
    /\ Quiet
    /\ ApptCreate(Caller, MaxTimedPk, {<<>>}, {"D1"}, {BookDate},
                  {Midnight, Morning}, {30}, {None})

CancelUpdate == Quiet /\ ApptUpdate(Caller, {}, {}, {}, {}, {"cancelled", "completed"})

CancelSettingsCreate ==
    SettingsQuiet /\ SettingsCreate(Caller, MaxTimedPk, {12, 24, 48})

CancelSettingsUpdate == SettingsQuiet /\ SettingsUpdate(Caller, {12, 24, 48})

CancelNext ==
    \/ CancelCreate
    \/ CancelUpdate
    \/ ApptSuperSave(Caller)
    \/ TimesTick
    \/ CancelSettingsCreate
    \/ CancelSettingsUpdate
    \/ SettingsSuperSave(Caller)

SpecCancel == Init /\ [][CancelNext]_vars

\* The patient table with one save() at a time: patients are created with a
\* generated or a supplied identifier and deleted, and the years pass.
HighPatientId == PatientPrefix(Start) \o <<"9", "9", "9", "9">>

OddPatientId == PatientPrefix(Start) \o <<"X">>

Users == {"u1", "u2", "u3"}

PatientNext ==
    \/ PatientCreate({<<>>, HighPatientId, OddPatientId}, Users)
    \/ PatientDelete
    \/ Tick(MonthInstants)

SpecPatient == Init /\ [][PatientNext]_vars

\* The settings table under concurrent callers.
DeadlineHours == {12, 24, 48}

SettingsNext ==
    \/ \E p \in Procs : SettingsCreate(p, MaxRacePk, DeadlineHours)
    \/ \E p \in Procs : SettingsUpdate(p, DeadlineHours)
    \/ \E p \in Procs : SettingsSuperSave(p)
    \/ SettingsDelete

SpecSettings == Init /\ [][SettingsNext]_vars

\* The settings table with one save() at a time.
SettingsSeqCreate(p) == SettingsQuiet /\ SettingsCreate(p, MaxPk, DeadlineHours)

SettingsSeqUpdate(p) == SettingsQuiet /\ SettingsUpdate(p, DeadlineHours)

SettingsSeqDelete == SettingsQuiet /\ SettingsDelete

SettingsSeqNext ==
    \/ \E p \in Procs : SettingsSeqCreate(p)
    \/ \E p \in Procs : SettingsSeqUpdate(p)
    \/ \E p \in Procs : SettingsSuperSave(p)
    \/ SettingsSeqDelete

SpecSettingsSeq == Init /\ [][SettingsSeqNext]_vars

\* ------------------------------------------------------------------------
\* Properties
\* ------------------------------------------------------------------------

Range(seq) == {seq[i] : i \in 1..Len(seq)}

\* The greatest of a non-empty set of strings.
Greatest(ids) == CHOOSE g \in ids : \A o \in ids : o = g \/ StrLess(o, g)

\* The identifiers that share their first n characters with id.
Sharing(ids, id, n) ==
    {o \in ids : Len(o) >= n /\ SubSeq(o, 1, n) = SubSeq(id, 1, n)}

\* What follows the 9-character month prefix of an appointment identifier.
ApptDigits(id) == SubSeq(id, 10, Len(id))

\* C1: when Appointment.save has generated the identifier of an appointment
\* that had none, the identifier is 'APT', the four digits of the current
\* year, the two digits of the current month, and the number n zero-padded
\* to four digits, where n is 1 when no stored identifier starts with that
\* year-month prefix and otherwise 1 + the number in the last four characters
\* of the greatest stored identifier with that prefix.
C1_GeneratedApptId ==
    (pc[Caller] = "write" /\ query[Caller].ran) =>
        LET id == inst[Caller].appointment_id
            same == Sharing(ApptIds(appointments), id, 9)
            n == IF same = {} THEN 1
                 ELSE 1 + ParseInt(LastChars(Greatest(same), 4))
        IN  /\ Len(id) >= 13
            /\ SubSeq(id, 1, 3) = <<"A", "P", "T">>
            /\ IsDecimal(SubSeq(id, 4, 7))
            /\ ParseInt(SubSeq(id, 4, 7)) = now.date.year
            /\ IsDecimal(SubSeq(id, 8, 9))
            /\ ParseInt(SubSeq(id, 8, 9)) = now.date.month
            /\ IsDecimal(ApptDigits(id))
            /\ ParseInt(ApptDigits(id)) = n
            /\ (n < 10000 => Len(id) = 13)

\* C1 witness: an identifier has been generated from the greatest of two
\* stored identifiers of the month.
C1_Witness ==
    /\ pc[Caller] = "write"
    /\ query[Caller].ran
    /\ Cardinality(Sharing(ApptIds(appointments), inst[Caller].appointment_id, 9)) = 2
    /\ ParseInt(ApptDigits(inst[Caller].appointment_id)) = 3

\* C2: with one save() at a time and no deletion, an appointment with a
\* generated identifier carries a sequence number strictly greater than
\* that of every appointment created before it in the same month.
C2_NumbersIncrease ==
    \A r1, r2 \in appointments :
        ( /\ r1.pk < r2.pk
          /\ r2.appointment_id \in Range(issued)
          /\ r1.appointment_id \in Sharing({r1.appointment_id}, r2.appointment_id, 9)
          /\ IsDecimal(ApptDigits(r1.appointment_id)) )
        => ParseInt(ApptDigits(r1.appointment_id)) < ParseInt(ApptDigits(r2.appointment_id))

\* C2 witness: three appointments of one month, created one after the other
\* with generated identifiers.
C2_Witness ==
    /\ Len(issued) = 3
    /\ Cardinality(appointments) = 3
    /\ \A r \in appointments : StartsWith(r.appointment_id, ApptPrefix(Start))

\* C3: no two stored appointments have the same appointment_id.
C3_UniqueApptId ==
    \A r1, r2 \in appointments :
        r1.appointment_id = r2.appointment_id => r1 = r2

\* C3 witness: an appointment is stored and a save() under way is about to
\* write another appointment with the same identifier.
C3_Witness ==
    \E p \in Procs : \E r \in appointments :
        /\ pc[p] = "write"
        /\ inst[p].pk # r.pk
        /\ inst[p].appointment_id = r.appointment_id
        /\ inst[p].appointment_time # r.appointment_time

SameSlot(a, b) ==
    /\ a.doctor = b.doctor
    /\ a.appointment_date = b.appointment_date
    /\ a.appointment_time = b.appointment_time

\* The save() of caller p has generated an identifier and not written yet.
Pending(p) == pc[p] = "write" /\ query[p].ran

\* Caller q generates its identifier while p is pending, in the month and on
\* the table contents p read: q computes p's identifier.
C4_SecondRead(p, q) ==
    ( /\ Pending(p)
      /\ pc[q] = "idle" /\ pc'[q] = "write" /\ query'[q].ran
      /\ query[p].ids = ApptIds(appointments)
      /\ query[p].at.date.year = now.date.year
      /\ query[p].at.date.month = now.date.month )
    => inst'[q].appointment_id = inst[p].appointment_id

\* Caller p writes while q is pending with the same identifier for another
\* slot: p is stored and q's identifier is now taken, or p fails and the
\* table is as it was.
C4_FirstWrite(p, q) ==
    ( /\ Pending(p) /\ Pending(q)
      /\ inst[p].appointment_id = inst[q].appointment_id
      /\ ~SameSlot(inst[p], inst[q])
      /\ pc'[p] = "idle" )
    => \/ /\ result'[p] = "ok"
          /\ \E r \in appointments' :
                r.appointment_id = inst[p].appointment_id /\ SameSlot(r, inst[p])
          /\ \A r \in appointments' :
                r.appointment_id = inst[q].appointment_id => ~SameSlot(r, inst[q])
       \/ /\ result'[p] = "IntegrityError"
          /\ appointments' = appointments

\* Caller p writes a generated identifier that a stored appointment holds:
\* its save() ends with IntegrityError, nothing is written and no second
\* identifier is generated.
C4_LateWrite(p) ==
    ( /\ Pending(p)
      /\ \E r \in appointments :
            r.pk # inst[p].pk /\ r.appointment_id = inst[p].appointment_id
      /\ pc'[p] = "idle" )
    => /\ result'[p] = "IntegrityError"
       /\ ~query'[p].ran
       /\ UNCHANGED <<appointments, apptPk, issued>>

\* C4: identifier generation is a read of the maximum followed by an insert,
\* with no lock: of two saves of new appointments for different slots that
\* both read before either writes, both compute the same appointment_id, at
\* most one is stored, and the other ends with IntegrityError and is not
\* tried again with a fresh number.
C4_RaceOnApptId ==
    [][\A p, q \in Procs :
          p # q => C4_SecondRead(p, q) /\ C4_FirstWrite(p, q) /\ C4_LateWrite(p)]_vars

\* C4 witness: both callers read an empty table and generated the same
\* identifier for different slots; one is stored and the other, whose write
\* will fail, is pending.
C4_Witness ==
    \E p, q \in Procs :
        /\ p # q
        /\ result[p] = "ok" /\ pc[p] = "idle"
        /\ Pending(q) /\ query[q].ids = {}
        /\ issued = <<inst[q].appointment_id>>
        /\ \E r \in appointments :
              r.appointment_id = inst[q].appointment_id /\ ~SameSlot(r, inst[q])

\* What follows 'PAT' and the four digits of the year in a patient identifier.
PatientDigits(id) == SubSeq(id, 8, Len(id))

\* C5: when Patient.save has generated the identifier of a patient that had
\* none, the identifier is 'PAT', the four digits of the current year, and
\* the number n zero-padded to four digits, where n is 1 when no stored
\* identifier starts with 'PAT<year>' and otherwise 1 + the number in the
\* last four characters of the greatest stored identifier with that prefix;
\* and as long as every patient was created with a generated identifier and
\* none was deleted, the k stored identifiers of a year carry the numbers 1..k.
C5_GeneratedPatientId ==
    /\ (plast.ran /\ plast.result # "ValueError") =>
            LET id == plast.id
                same == Sharing(plast.ids, id, 7)
                n == IF same = {} THEN 1
                     ELSE 1 + ParseInt(LastChars(Greatest(same), 4))
            IN  /\ Len(id) >= 11
                /\ SubSeq(id, 1, 3) = <<"P", "A", "T">>
                /\ IsDecimal(SubSeq(id, 4, 7))
                /\ ParseInt(SubSeq(id, 4, 7)) = plast.at.date.year
                /\ IsDecimal(PatientDigits(id))
                /\ ParseInt(PatientDigits(id)) = n
                /\ (n < 10000 => Len(id) = 11)
    /\ pplain =>
            \A year \in {2024, 2025} :
                LET ofYear == {id \in PatientIds(patients) :
                                 ParseInt(SubSeq(id, 4, 7)) = year}
                IN  {ParseInt(PatientDigits(id)) : id \in ofYear}
                        = 1..Cardinality(ofYear)

\* C5 witness: three patients created in 2024 with generated identifiers,
\* none deleted.
C5_Witness ==
    /\ pplain
    /\ Cardinality(patients) = 3
    /\ plast.ran /\ plast.result = "ok"
    /\ plast.at.date.year = 2024
    /\ Cardinality(plast.ids) = 2

\* C6: with one ClinicSettings.save at a time, on new instances and on the
\* stored one, and deletions, at most one ClinicSettings row is stored.
C6_SingleSettingsRow == \A r1, r2 \in settings : r1 = r2

\* C6 witness: a row is stored and a save of a second new instance has been
\* refused.
C6_Witness ==
    /\ settings # {}
    /\ \E p \in Procs : sresult[p] = "ValueError"

\* C7: ClinicSettings.save on a new instance while a row exists raises
\* ValueError; no write follows and the stored rows are as they were.
C7_SecondSettingsRefused ==
    [][\A p \in Procs : \A h \in DeadlineHours :
          ( /\ settings # {}
            /\ SettingsSaveBody(p, [pk |-> None, cancellation_deadline_hours |-> h]) )
          => /\ sresult'[p] = "ValueError"
             /\ spc'[p] = "idle"
             /\ UNCHANGED <<settings, settingsPk>>]_vars

\* C7 witness: the save of a new instance was refused with the row stored.
C7_Witness ==
    \E p \in Procs :
        /\ sresult[p] = "ValueError"
        /\ spc[p] = "idle"
        /\ Cardinality(settings) = 1

\* C8: at most one ClinicSettings row is stored, also when saves of new
\* instances interleave.
C8_SingleRowUnderRace == Cardinality(settings) <= 1

\* C9: Appointment.save on an appointment with no end_time, a time and a
\* duration greater than 0 leaves as end_time the time of day
\* (appointment_time + duration) modulo 24 hours.
C9_DerivedEndTime ==
    [][\A id \in {<<>>, inst'[Caller].appointment_id} :
          LET a == [inst'[Caller] EXCEPT !.appointment_id = id, !.end_time = None]
          IN  (ApptSaveBody(Caller, a) /\ pc'[Caller] = "write" /\ a.duration > 0)
              => inst'[Caller].end_time
                     = (a.appointment_time + a.duration) % (24 * 60)]_vars

\* C9 witness: the end time derived for 23:30 and 45 minutes is 00:15,
\* earlier than the start.
C9_Witness ==
    /\ pc[Caller] = "write"
    /\ inst[Caller].appointment_time = LateEvening
    /\ inst[Caller].duration = 45
    /\ inst[Caller].end_time = 15

\* Minutes from 30 November 2024 00:00 to time t of a date of the model.
Elapsed(d, t) ==
    (CASE d = Date(2024, 11, 30) -> 0
       [] d = Date(2024, 12, 1) -> 1
       [] d = Date(2024, 12, 2) -> 2) * 24 * 60 + t

\* C10: can_be_cancelled is true exactly when the current time is strictly
\* earlier than the scheduled start minus 24 hours.
C10_CancelWindow ==
    \A r \in appointments :
        CanBeCancelled(r, now)
            <=> Elapsed(now.date, now.minute)
                    < Elapsed(r.appointment_date, r.appointment_time) - 24 * 60

\* C10 witness: at exactly 24 hours before an appointment at 00:00 it can no
\* longer be cancelled.
C10_Witness ==
    \E r \in appointments :
        /\ r.appointment_time = Midnight
        /\ now = At(Date(2024, 12, 1), 0)
        /\ ~CanBeCancelled(r, now)


\* C11: is_past_due is true exactly when the current time is strictly later
\* than the scheduled start; at the scheduled instant it is false.
C11_PastDue ==
    \A r \in appointments :
        IsPastDue(r, now)
            <=> Elapsed(now.date, now.minute)
                    > Elapsed(r.appointment_date, r.appointment_time)

\* C11 witness: at the scheduled instant of an appointment at 00:00 it is
\* not past due.
C11_Witness ==
    \E r \in appointments :
        /\ r.appointment_time = Midnight
        /\ now = At(BookDate, 0)
        /\ ~IsPastDue(r, now)


\* C12: no two stored appointments have the same doctor, date and time,
\* whatever their status; a write that would store a second appointment in
\* a slot ends with IntegrityError and leaves the table as it was.
C12_UniqueSlot ==
    [][/\ \A r1, r2 \in appointments' : SameSlot(r1, r2) => r1 = r2
       /\ \A p \in Procs :
             ( /\ pc[p] = "write" /\ pc'[p] = "idle"
               /\ \E r \in appointments : r.pk # inst[p].pk /\ SameSlot(r, inst[p]) )
             => /\ result'[p] = "IntegrityError"
                /\ UNCHANGED <<appointments, apptPk>>]_vars

\* C12 witness: a save was refused and a write for the slot of a cancelled
\* appointment is pending.
C12_Witness ==
    \E p, q \in Procs : \E r \in appointments :
        /\ result[q] = "IntegrityError"
        /\ pc[p] = "write"
        /\ r.pk # inst[p].pk
        /\ r.status = "cancelled"
        /\ SameSlot(r, inst[p])


\* C13: with one save() at a time, every identifier generated for a new
\* appointment is the 9-character month prefix followed by exactly four
\* decimal digits, and no stored appointment holds it, also when the
\* greatest stored number of the month is 9999.
C13_FreshFourDigitId ==
    (pc[Caller] = "write" /\ query[Caller].ran) =>
        LET id == inst[Caller].appointment_id
        IN  /\ Len(id) = 13
            /\ IsDecimal(ApptDigits(id))
            /\ id \notin ApptIds(appointments)

\* C14: a generated appointment identifier is never issued twice, whatever
\* was created and deleted before.
C14_NeverReissued ==
    \A i, j \in 1..Len(issued) : issued[i] = issued[j] => i = j


\* C15: appointment numbers are kept per month of creation. With one save()
\* at a time, a generated identifier carries the year and month of the
\* clock at the save, not those of appointment_date; it ends in 0001 when no
\* stored identifier has its month prefix, whatever earlier months reached;
\* and identifiers generated in different months are different.
C15_PerCreationMonth ==
    /\ (pc[Caller] = "write" /\ query[Caller].ran) =>
          LET id == inst[Caller].appointment_id
          IN  /\ Len(id) >= 9
              /\ SubSeq(id, 1, 3) = <<"A", "P", "T">>
              /\ IsDecimal(SubSeq(id, 4, 9))
              /\ ParseInt(SubSeq(id, 4, 7)) = now.date.year
              /\ ParseInt(SubSeq(id, 8, 9)) = now.date.month
              /\ Sharing(ApptIds(appointments), id, 9) = {}
                    => ApptDigits(id) = <<"0", "0", "0", "1">>
    /\ \A i, j \in 1..Len(issued) :
          issuedIn[i] # issuedIn[j] => issued[i] # issued[j]

\* C15 witness: in January 2025 an appointment booked for December 2024 is
\* given APT2025010001 while an appointment numbered above 1 in an earlier
\* month is stored and an identifier generated in an earlier month exists.
C15_Witness ==
    /\ pc[Caller] = "write" /\ query[Caller].ran
    /\ now.date.year = 2025
    /\ inst[Caller].appointment_date.year = 2024
    /\ ApptDigits(inst[Caller].appointment_id) = <<"0", "0", "0", "1">>
    /\ \E r \in appointments :
          /\ IsDecimal(ApptDigits(r.appointment_id))
          /\ ParseInt(ApptDigits(r.appointment_id)) > 1
    /\ Len(issued) >= 1
    /\ issuedIn[1] # <<now.date.year, now.date.month>>


\* The write of a save() whose instance came with an identifier succeeds.
SuppliedIdStored ==
    /\ pc[Caller] = "write" /\ ~query[Caller].ran
    /\ pc'[Caller] = "idle" /\ result'[Caller] = "ok"

\* The next new appointment is numbered after the step as before it.
SameNextNumber ==
    /\ ApptIdRaises(appointments', now) <=> ApptIdRaises(appointments, now)
    /\ ~ApptIdRaises(appointments, now)
          => NewApptNumber(appointments', now) = NewApptNumber(appointments, now)

\* No step changes the identifier of a stored appointment, and a save() of
\* an instance that came with an identifier stores it under that identifier.
IdKept ==
    /\ \A r1 \in appointments : \A r2 \in appointments' :
          r1.pk = r2.pk => r1.appointment_id = r2.appointment_id
    /\ SuppliedIdStored =>
          \E r \in appointments' :
              /\ r.appointment_id = inst[Caller].appointment_id
              /\ inst[Caller].pk # None => r.pk = inst[Caller].pk

C17_EndTimeKept ==
    [][\A p \in Procs :
          /\ (pc'[p] = "write" /\ given'[p].end_time # None)
                => inst'[p].end_time = given'[p].end_time
          /\ ( /\ pc[p] = "write" /\ pc'[p] = "idle" /\ result'[p] = "ok"
               /\ given[p].end_time # None )
                => \E r \in appointments' :
                      /\ r.appointment_id = inst[p].appointment_id
                      /\ r.end_time = given[p].end_time]_vars

\* C17 witness: a stored appointment whose end_time is midnight was moved to
\* 09:00 for 45 minutes by the caller, and its save() is about to write.
C17_Witness ==
    /\ pc[Caller] = "write"
    /\ given[Caller].end_time = Midnight
    /\ given[Caller].appointment_time = Morning
    /\ given[Caller].duration = 45
    /\ \E r \in appointments :
          r.pk = given[Caller].pk /\ r.appointment_time = LateEvening


\* C18: every stored appointment whose end_time was derived by save(), none
\* being supplied, ends at its appointment_time plus its duration, taken
\* modulo 24 hours, also after saves that change the time or the duration.
C18_EndTimeFollows ==
    \A r \in appointments :
        r.end_time = (r.appointment_time + r.duration) % MinutesPerDay


\* The stored appointment with primary key pk.
Stored(pk) == \E r \in appointments : r.pk = pk

Row(pk) == CHOOSE r \in appointments : r.pk = pk

C20_OneWay ==
    [][\A r2 \in appointments' :
          (now' # now \/ r2 \notin appointments) =>
              LET cancellable2 == CanBeCancelled(r2, now')
                  past2 == IsPastDue(r2, now')
              IN  /\ past2 => ~cancellable2
                  /\ \A r \in appointments :
                        ( /\ r.pk = r2.pk
                          /\ r.appointment_date = r2.appointment_date
                          /\ r.appointment_time = r2.appointment_time )
                        => /\ ~CanBeCancelled(r, now) => ~cancellable2
                           /\ IsPastDue(r, now) => past2]_vars

\* C20 witness: one minute after the start of an appointment at 00:00, it is
\* past due and cannot be cancelled.
C20_Witness ==
    /\ now = At(BookDate, 1)
    /\ \E r \in appointments :
          /\ r.appointment_time = Midnight
          /\ IsPastDue(r, now)
          /\ ~CanBeCancelled(r, now)


\* C21: in no state are can_be_cancelled and is_past_due both true of one
\* appointment: can_be_cancelled implies that is_past_due is false.
C21_NeverBoth ==
    \A r \in appointments : CanBeCancelled(r, now) => ~IsPastDue(r, now)

\* C21 witness: at 23:59 on 30 November an appointment at 09:00 on
\* 2 December can be cancelled and is not past due.
C21_Witness ==
    /\ now = Start
    /\ \E r \in appointments :
          /\ r.appointment_time = Morning
          /\ CanBeCancelled(r, now)
          /\ ~IsPastDue(r, now)


\* C22: the guard of ClinicSettings.save refuses only the creation of a
\* second row. A save() of a stored instance is not refused, succeeds and
\* adds no row, so a single row stays single; a save() of a new instance
\* begun while the table is empty, after a deletion too, is not refused,
\* succeeds, and leaves one row when the table is still empty at its write.
C22_OnlySecondCreationRefused ==
    [][\A p \in Procs :
          /\ \A h \in DeadlineHours :
                /\ \A r \in settings :
                      SettingsSaveBody(p, [r EXCEPT !.cancellation_deadline_hours = h])
                          => spc'[p] = "write" /\ sresult'[p] # "ValueError"
                /\ ( /\ settings = {}
                     /\ SettingsSaveBody(p, [pk |-> None,
                                             cancellation_deadline_hours |-> h]) )
                          => spc'[p] = "write" /\ sresult'[p] # "ValueError"
          /\ (spc[p] = "write" /\ spc'[p] = "idle") =>
                /\ sresult'[p] = "ok"
                /\ \E r \in settings' :
                      r.cancellation_deadline_hours = sinst[p].cancellation_deadline_hours
                /\ (\E r \in settings : r.pk = sinst[p].pk)
                      => Cardinality(settings') = Cardinality(settings)
                /\ (sinst[p].pk = None /\ settings = {})
                      => Cardinality(settings') = 1]_vars

\* C22 witness: the only row was created and deleted, and the save() of a
\* new instance, begun by the same caller after the deletion, has passed the
\* guard and is about to write.
C22_Witness ==
    /\ settings = {}
    /\ settingsPk = 1
    /\ \E p \in Procs :
          /\ spc[p] = "write"
          /\ sinst[p].pk = None
          /\ \A q \in Procs \ {p} : spc[q] = "idle" /\ sresult[q] = "none"

====
